---- MODULE Spec2Model ----
(***************************************************************************)
(* Model of app.py: the POST /analyze handler (upload validation, optional *)
(* compression, audio extraction, duration gate, transcription, metrics,   *)
(* temp-file cleanup) and the pure metric functions it calls.              *)
(*                                                                         *)
(* Text is a sequence of one-character strings.  Temp files are records    *)
(* [name, compressed, ext]; the disk is the set of paths that exist.       *)
(***************************************************************************)
EXTENDS Integers, Sequences, FiniteSets, TLC

(***************************************************************************)
(* Bounds of the model                                                     *)
(***************************************************************************)
NumReq == 2
NumNames == 2
MaxPieces == 3
MaxWords == 185

Requests == 1..NumReq
Names == 1..NumNames

(***************************************************************************)
(* Program constants                                                       *)
(***************************************************************************)
MB == 1024 * 1024
MAX_UPLOAD_BYTES == 50 * MB
COMPRESS_THRESHOLD_BYTES == 20 * MB
MAX_DURATION_SECONDS == 180

FILLER_WORDS ==
  << <<"u","m">>,
     <<"u","h">>,
     <<"l","i","k","e">>,
     <<"y","o","u"," ","k","n","o","w">>,
     <<"s","o">>,
     <<"a","c","t","u","a","l","l","y">>,
     <<"b","a","s","i","c","a","l","l","y">>,
     <<"l","i","t","e","r","a","l","l","y">>,
     <<"r","i","g","h","t">>,
     <<"o","k","a","y">> >>

(***************************************************************************)
(* Text helpers: str.lower, str.split, re.findall(r'\b\w+\b'), str.count   *)
(***************************************************************************)
UpperChars == {"A","B","C","D","E","F","G","H","I","J","K","L","M",
               "N","O","P","Q","R","S","T","U","V","W","X","Y","Z"}
LowerChars == {"a","b","c","d","e","f","g","h","i","j","k","l","m",
               "n","o","p","q","r","s","t","u","v","w","x","y","z"}
DigitChars == {"0","1","2","3","4","5","6","7","8","9"}
SpaceChars == {" "}

LowerPairs ==
  << <<"A","a">>, <<"B","b">>, <<"C","c">>, <<"D","d">>, <<"E","e">>,
     <<"F","f">>, <<"G","g">>, <<"H","h">>, <<"I","i">>, <<"J","j">>,
     <<"K","k">>, <<"L","l">>, <<"M","m">>, <<"N","n">>, <<"O","o">>,
     <<"P","p">>, <<"Q","q">>, <<"R","r">>, <<"S","s">>, <<"T","t">>,
     <<"U","u">>, <<"V","v">>, <<"W","w">>, <<"X","x">>, <<"Y","y">>,
     <<"Z","z">> >>

LowerChar(c) ==
  IF c \in UpperChars
  THEN LET i == CHOOSE j \in 1..Len(LowerPairs) : LowerPairs[j][1] = c
       IN LowerPairs[i][2]
  ELSE c

\* text.lower()
Lower(text) == [i \in 1..Len(text) |-> LowerChar(text[i])]

\* the class \w of the regular expression
IsWordChar(c) == c \in UpperChars \cup LowerChars \cup DigitChars \cup {"_"}

\* whether character c can be part of a token
InRun(c, wordsOnly) == IF wordsOnly THEN IsWordChar(c) ELSE c \notin SpaceChars

\* The maximal runs of token characters in text[lo..hi], left to right,
\* found by halving: a run that crosses the middle is joined again.
RECURSIVE Runs(_, _, _, _)
Runs(text, lo, hi, wordsOnly) ==
  IF lo > hi THEN <<>>
  ELSE IF lo = hi
  THEN IF InRun(text[lo], wordsOnly) THEN << <<text[lo]>> >> ELSE <<>>
  ELSE LET mid == (lo + hi) \div 2
           left == Runs(text, lo, mid, wordsOnly)
           right == Runs(text, mid + 1, hi, wordsOnly)
       IN IF InRun(text[mid], wordsOnly) /\ InRun(text[mid + 1], wordsOnly)
          THEN SubSeq(left, 1, Len(left) - 1)
                 \o << left[Len(left)] \o right[1] >>
                 \o SubSeq(right, 2, Len(right))
          ELSE left \o right

\* re.findall(r'\b\w+\b', text)
FindWords(text) == Runs(text, 1, Len(text), TRUE)

\* text.split()
Split(text) == Runs(text, 1, Len(text), FALSE)

\* list.count(x)
ListCount(list, x) == Cardinality({i \in 1..Len(list) : list[i] = x})

MatchesAt(text, sub, i) ==
  /\ i + Len(sub) - 1 <= Len(text)
  /\ \A k \in 1..Len(sub) : text[i + k - 1] = sub[k]

\* str.count(sub): non-overlapping occurrences, scanning from position i;
\* each occurrence found restarts the scan after its end
RECURSIVE StrCountFrom(_, _, _)
StrCountFrom(text, sub, i) ==
  LET found == {j \in i..Len(text) : MatchesAt(text, sub, j)}
  IN IF found = {} THEN 0
     ELSE LET first == CHOOSE j \in found : \A k \in found : j <= k
          IN 1 + StrCountFrom(text, sub, first + Len(sub))

StrCount(text, sub) == StrCountFrom(text, sub, 1)

\* ' ' in filler
HasSpace(filler) == \E k \in 1..Len(filler) : filler[k] = " "

(***************************************************************************)
(* count_filler_words_detailed                                             *)
(***************************************************************************)
\* Mutation: every entry is counted as a substring.
FillerCountSubstring(text_lower, words, filler) ==
  StrCount(text_lower, filler)

\* the occurrence count of one catalog entry
FillerCount(text_lower, words, filler) ==
  IF HasSpace(filler)
  THEN StrCount(text_lower, filler)
  ELSE ListCount(words, filler)

\* Mutation: the entry is stored whatever its count.
RecordFillerAlways(acc, filler, count) ==
  [total |-> acc.total + count,
   counts |-> [f \in (DOMAIN acc.counts) \cup {filler} |->
                 IF f = filler THEN count ELSE acc.counts[f]]]

\* if count > 0: filler_counts[filler] = count; total_count += count
RecordFiller(acc, filler, count) ==
  IF count > 0
  THEN [total |-> acc.total + count,
        counts |-> [f \in (DOMAIN acc.counts) \cup {filler} |->
                      IF f = filler THEN count ELSE acc.counts[f]]]
  ELSE acc

\* the loop over FILLER_WORDS, from catalog index i with accumulator acc
RECURSIVE FillerLoop(_, _, _, _)
FillerLoop(text_lower, words, i, acc) ==
  IF i > Len(FILLER_WORDS) THEN acc
  ELSE FillerLoop(text_lower, words, i + 1,
         RecordFiller(acc, FILLER_WORDS[i],
                      FillerCount(text_lower, words, FILLER_WORDS[i])))

EmptyTally == [f \in {} |-> 0]

\* returns [total |-> total_count, counts |-> filler_counts]
count_filler_words_detailed(text) ==
  LET text_lower == Lower(text)
      words == FindWords(text_lower)
  IN FillerLoop(text_lower, words, 1, [total |-> 0, counts |-> EmptyTally])

(***************************************************************************)
(* assess_pace; the verdict sentences are abbreviated to their band        *)
(***************************************************************************)
\* Mutation: the ideal band starts above 140.
assess_pace_exclusive(wpm) ==
  IF 140 < wpm /\ wpm <= 160 THEN "excellent"
  ELSE IF 120 <= wpm /\ wpm < 140 THEN "good, slightly slow"
  ELSE IF 160 < wpm /\ wpm <= 180 THEN "good, slightly fast"
  ELSE IF wpm < 120 THEN "too slow"
  ELSE "too fast"

assess_pace(wpm) ==
  IF 140 <= wpm /\ wpm <= 160 THEN "excellent"
  ELSE IF 120 <= wpm /\ wpm < 140 THEN "good, slightly slow"
  ELSE IF 160 < wpm /\ wpm <= 180 THEN "good, slightly fast"
  ELSE IF wpm < 120 THEN "too slow"
  ELSE "too fast"

(***************************************************************************)
(* IEEE-754 double arithmetic on small positive operands.  A float is      *)
(* [m, e]: m the 53 significand bits as five limbs <<1 bit, 13, 13, 13,    *)
(* 13 bits>>, e the exponent of the leading bit; the value is              *)
(* (m as an integer) * 2^(e - 52).                                         *)
(***************************************************************************)
LimbBase == 8192
LimbBits == 13

RECURSIVE Pow2(_)
Pow2(n) == IF n = 0 THEN 1 ELSE 2 * Pow2(n - 1)

RECURSIVE BitLen(_)
BitLen(n) == IF n = 0 THEN 0 ELSE 1 + BitLen(n \div 2)

\* m + 1 when up, renormalised to 53 bits
RoundUp(m, e, up) ==
  IF ~up THEN [m |-> m, e |-> e]
  ELSE LET s5 == m[5] + 1
           s4 == m[4] + s5 \div LimbBase
           s3 == m[3] + s4 \div LimbBase
           s2 == m[2] + s3 \div LimbBase
           s1 == m[1] + s2 \div LimbBase
       IN IF s1 = 2
          THEN [m |-> <<1, 0, 0, 0, 0>>, e |-> e + 1]
          ELSE [m |-> <<s1, s2 % LimbBase, s3 % LimbBase, s4 % LimbBase,
                        s5 % LimbBase>>,
                e |-> e]

\* scale num / den into [1, 2): the scaled pair and the exponent
RECURSIVE Normalize(_, _, _)
Normalize(num, den, e) ==
  IF num >= 2 * den THEN Normalize(num, 2 * den, e + 1)
  ELSE IF num < den THEN Normalize(2 * num, den, e - 1)
  ELSE [num |-> num, den |-> den, e |-> e]

\* num / den for integers num, den > 0, rounded to nearest, ties to even
FloatDiv(num, den) ==
  LET s == Normalize(num, den, 0)
      r0 == s.num - s.den
      c1 == (r0 * LimbBase) \div s.den
      r1 == (r0 * LimbBase) % s.den
      c2 == (r1 * LimbBase) \div s.den
      r2 == (r1 * LimbBase) % s.den
      c3 == (r2 * LimbBase) \div s.den
      r3 == (r2 * LimbBase) % s.den
      c4 == (r3 * LimbBase) \div s.den
      r4 == (r3 * LimbBase) % s.den
      up == 2 * r4 > s.den \/ (2 * r4 = s.den /\ c4 % 2 = 1)
  IN RoundUp(<<1, c1, c2, c3, c4>>, s.e, up)

\* f * k for an integer 2 <= k < 8192, rounded to nearest, ties to even
FloatMul(f, k) ==
  LET v5 == f.m[5] * k
      v4 == f.m[4] * k + v5 \div LimbBase
      v3 == f.m[3] * k + v4 \div LimbBase
      v2 == f.m[2] * k + v3 \div LimbBase
      top == f.m[1] * k + v2 \div LimbBase
      l2 == v2 % LimbBase
      l3 == v3 % LimbBase
      l4 == v4 % LimbBase
      l5 == v5 % LimbBase
      d == BitLen(top) - 1
      low == Pow2(d)
      high == Pow2(LimbBits - d)
      n1 == top \div low
      n2 == (top % low) * high + l2 \div low
      n3 == (l2 % low) * high + l3 \div low
      n4 == (l3 % low) * high + l4 \div low
      n5 == (l4 % low) * high + l5 \div low
      dropped == l5 % low
      up == 2 * dropped > low \/ (2 * dropped = low /\ n5 % 2 = 1)
  IN RoundUp(<<n1, n2, n3, n4, n5>>, f.e + d, up)

\* int(f) for f > 0 below 2^27
FloatTrunc(f) ==
  IF f.e < 0 THEN 0
  ELSE IF f.e <= LimbBits
  THEN (f.m[1] * LimbBase + f.m[2]) \div Pow2(LimbBits - f.e)
  ELSE (f.m[1] * LimbBase * LimbBase + f.m[2] * LimbBase + f.m[3])
         \div Pow2(2 * LimbBits - f.e)

(***************************************************************************)
(* Metrics step of analyze_video.  Durations are whole seconds.  The       *)
(* filler rate is kept in hundredths; over the durations and counts of     *)
(* this model its float expression agrees with the integer form below.     *)
(***************************************************************************)
\* int((word_count / duration) * 60) if duration > 0 else 0
WordsPerMin(word_count, dur) ==
  IF dur > 0
  THEN IF word_count = 0 THEN 0
       ELSE FloatTrunc(FloatMul(FloatDiv(word_count, dur), 60))
  ELSE 0

\* round(filler_count / duration_minutes, 2), in hundredths;
\* duration_minutes = duration / 60 if duration > 0 else 1
FillerRateHundredths(filler_count, dur) ==
  IF dur > 0
  THEN (2 * filler_count * 6000 + dur) \div (2 * dur)
  ELSE filler_count * 100

NoResult == [present |-> FALSE]

\* the result dictionary built from transcript and duration
Metrics(text, dur) ==
  LET word_count == Len(Split(text))
      words_per_min == WordsPerMin(word_count, dur)
      fillers == count_filler_words_detailed(text)
  IN [present |-> TRUE,
      transcript |-> text,
      duration |-> dur,
      word_count |-> word_count,
      words_per_min |-> words_per_min,
      filler_count |-> fillers.total,
      filler_rate_per_min |-> FillerRateHundredths(fillers.total, dur),
      filler_breakdown |-> fillers.counts,
      pace |-> assess_pace(words_per_min)]

(***************************************************************************)
(* Temp-file paths                                                         *)
(***************************************************************************)
NoPath == [name |-> 0, compressed |-> FALSE, ext |-> "none"]

\* the name NamedTemporaryFile(suffix='.mp4') returns for random part n
TempVideoPath(n) == [name |-> n, compressed |-> FALSE, ext |-> "mp4"]

\* original_video_path.replace('.mp4', '_compressed.mp4')
CompressedPathOf(p) == [p EXCEPT !.compressed = TRUE]

\* video_path.replace('.mp4', '.mp3')
AudioPathOf(p) == [p EXCEPT !.ext = "mp3"]

(***************************************************************************)
(* Inputs and outcomes of the environment                                  *)
(***************************************************************************)
NoFilename == [base |-> "", ext |-> ""]

Filenames ==
  { NoFilename,
    [base |-> "talk", ext |-> "mp4"],
    [base |-> "notes", ext |-> "txt"],
    [base |-> "talk", ext |-> ""] }

UploadSizes ==
  { COMPRESS_THRESHOLD_BYTES, COMPRESS_THRESHOLD_BYTES + 1,
    MAX_UPLOAD_BYTES, MAX_UPLOAD_BYTES + 1 }

NoForm == [hasVideo |-> FALSE, filename |-> NoFilename, size |-> 0]

\* request.files of one request: no 'video' part, or one with a filename
\* and a byte size
Forms ==
  { NoForm } \cup
  { [hasVideo |-> TRUE, filename |-> f, size |-> s] :
      f \in Filenames, s \in UploadSizes }

\* what ffprobe may report as format=duration
ProbeDurations ==
  { 0, 10, MAX_DURATION_SECONDS, MAX_DURATION_SECONDS + 1 }

\* what os.path.getsize may report for the extracted audio
AudioSizes == { MB, 24 * MB, 24 * MB + 1 }

\* what the transcription service may return
SampleTranscripts ==
  { <<>>,
    <<"U","m"," ","s","o",","," ","u","m">>,
    <<"y","o","u"," ","k","n","o","w"," ","l","i","k","e","l","y">> }

Pieces ==
  { <<"u","m">>, <<"S","o">>, <<"l","i","k","e">>, <<"l","y">>,
    <<" ">>, <<",">>, <<"y","o","u"," ","k","n","o","w">>, <<"I">> }

\* every concatenation of at most n pieces
RECURSIVE PieceTexts(_)
PieceTexts(n) ==
  IF n = 0 THEN { <<>> }
  ELSE LET prev == PieceTexts(n - 1)
       IN prev \cup { t \o p : t \in prev, p \in Pieces }

BoundedTranscripts == PieceTexts(MaxPieces)

\* "um so like I think basically we should, um, go now"
ScenarioTranscript ==
  <<"u","m"," ","s","o"," ","l","i","k","e"," ","I"," ","t","h","i","n","k",
    " ","b","a","s","i","c","a","l","l","y"," ","w","e"," ","s","h","o","u",
    "l","d",","," ","u","m",","," ","g","o"," ","n","o","w">>

\* the text of n words "a", separated by single spaces
WordText(n) ==
  IF n = 0 THEN <<>>
  ELSE [i \in 1..(2 * n - 1) |-> IF i % 2 = 1 THEN "a" ELSE " "]

WordTexts == {WordText(n) : n \in 0..MaxWords}

(***************************************************************************)
(* State                                                                   *)
(***************************************************************************)
VARIABLES
  apiKey,               \* os.getenv('OPENAI_API_KEY') is set
  disk,                 \* the temp files that exist
  pc,                   \* position of each request in analyze_video
  form,                 \* request.files of each request
  original_video_path,
  video_path,
  audio_path,
  duration,
  audio_size,           \* size of the extracted audio file
  transcript,
  result,
  response,             \* [status, error, raisedAt]; status 0: none yet
  created,              \* the paths each request has created
  stages,               \* the steps each request has entered, in order
  unlinks               \* the os.unlink calls of each request, in order

locals == <<original_video_path, video_path, audio_path, duration,
            audio_size, transcript, result>>

vars == <<apiKey, disk, pc, form, original_video_path, video_path,
          audio_path, duration, audio_size, transcript, result, response,
          created, stages, unlinks>>

NoResponse == [status |-> 0, error |-> "", raisedAt |-> ""]

Init ==
  /\ apiKey \in BOOLEAN
  /\ disk = {}
  /\ pc = [r \in Requests |-> "idle"]
  /\ form = [r \in Requests |-> NoForm]
  /\ original_video_path = [r \in Requests |-> NoPath]
  /\ video_path = [r \in Requests |-> NoPath]
  /\ audio_path = [r \in Requests |-> NoPath]
  /\ duration = [r \in Requests |-> -1]
  /\ audio_size = [r \in Requests |-> 0]
  /\ transcript = [r \in Requests |-> <<>>]
  /\ result = [r \in Requests |-> NoResult]
  /\ response = [r \in Requests |-> NoResponse]
  /\ created = [r \in Requests |-> {}]
  /\ stages = [r \in Requests |-> <<>>]
  /\ unlinks = [r \in Requests |-> <<>>]

(***************************************************************************)
(* Ways out of the handler                                                 *)
(***************************************************************************)
\* return jsonify(...), status
Respond(r, status, error) ==
  /\ response' = [response EXCEPT ![r] =
                    [status |-> status, error |-> error, raisedAt |-> ""]]
  /\ pc' = [pc EXCEPT ![r] = "responded"]

\* except Exception as e: return jsonify({'error': str(e)}), 500
Raise(r, at) ==
  /\ response' = [response EXCEPT ![r] =
                    [status |-> 500, error |-> "Exception", raisedAt |-> at]]
  /\ pc' = [pc EXCEPT ![r] = "responded"]

\* a subprocess call without timeout that never returns
Block(r) ==
  /\ pc' = [pc EXCEPT ![r] = "blocked"]
  /\ UNCHANGED response

Enter(r, stage) == stages' = [stages EXCEPT ![r] = Append(@, stage)]

\* os.unlink(path) was called; ok: it removed the file, otherwise it raised
Unlinked(r, path, ok) ==
  unlinks' = [unlinks EXCEPT ![r] = Append(@, [path |-> path, ok |-> ok])]

(***************************************************************************)
(* analyze_video, step by step                                             *)
(***************************************************************************)
\* a POST /analyze request arrives
Receive(r) ==
  /\ pc[r] = "idle"
  /\ \E f \in Forms : form' = [form EXCEPT ![r] = f]
  /\ pc' = [pc EXCEPT ![r] = "check_key"]
  /\ UNCHANGED <<apiKey, unlinks, disk, locals, response, created, stages>>

\* Mutation: the credential is not looked at before the upload.
CheckKeySkipped(r) ==
  /\ pc[r] = "check_key"
  /\ pc' = [pc EXCEPT ![r] = "check_file"]
  /\ UNCHANGED <<apiKey, unlinks, disk, form, locals, response, created,
                 stages>>

\* if not os.getenv('OPENAI_API_KEY'): return ..., 500
CheckKey(r) ==
  /\ pc[r] = "check_key"
  /\ IF ~apiKey
     THEN Respond(r, 500, "NoApiKey")
     ELSE /\ pc' = [pc EXCEPT ![r] = "check_file"]
          /\ UNCHANGED response
  /\ UNCHANGED <<apiKey, unlinks, disk, form, locals, created, stages>>

\* if 'video' not in request.files: return ..., 400
CheckFile(r) ==
  /\ pc[r] = "check_file"
  /\ IF ~form[r].hasVideo
     THEN Respond(r, 400, "MissingFile")
     ELSE /\ pc' = [pc EXCEPT ![r] = "check_size"]
          /\ UNCHANGED response
  /\ UNCHANGED <<apiKey, unlinks, disk, form, locals, created, stages>>

\* Mutation: the ceiling itself is rejected too.
ExceedsUploadCeilingInclusive(file_size) == file_size >= MAX_UPLOAD_BYTES

\* file_size > 50 * 1024 * 1024
ExceedsUploadCeiling(file_size) == file_size > MAX_UPLOAD_BYTES

\* if file_size > 50 MB: return ..., 400
CheckSize(r) ==
  /\ pc[r] = "check_size"
  /\ IF ExceedsUploadCeiling(form[r].size)
     THEN Respond(r, 400, "PayloadTooLarge")
     ELSE /\ pc' = [pc EXCEPT ![r] = "save"]
          /\ UNCHANGED response
  /\ UNCHANGED <<apiKey, unlinks, disk, form, locals, created, stages>>

\* file_size > 20 * 1024 * 1024
NeedsCompression(file_size) == file_size > COMPRESS_THRESHOLD_BYTES

\* with tempfile.NamedTemporaryFile(delete=False, suffix='.mp4') as t:
\*     video_file.save(t.name); original_video_path = t.name
\* then the branch on file_size > 20 MB
Save(r) ==
  /\ pc[r] = "save"
  /\ Enter(r, "save")
  /\ \E n \in Names :
       LET p == TempVideoPath(n) IN
       /\ p \notin disk
       /\ disk' = disk \cup {p}
       /\ created' = [created EXCEPT ![r] = @ \cup {p}]
       /\ original_video_path' = [original_video_path EXCEPT ![r] = p]
       /\ IF NeedsCompression(form[r].size)
          THEN /\ pc' = [pc EXCEPT ![r] = "compress"]
               /\ UNCHANGED video_path
          ELSE /\ pc' = [pc EXCEPT ![r] = "probe"]
               /\ video_path' = [video_path EXCEPT ![r] = p]
  /\ UNCHANGED <<apiKey, unlinks, form, audio_path, duration, audio_size,
                 transcript, result, response>>

CompressOutcomes == {"ok", "failed", "failed_partial", "hang"}

\* Mutation: the output path is returned whatever the outcome.
compress_video_always_output(input_path, output_path, outcome) ==
  [ret |-> output_path,
   wrote |-> outcome \in {"ok", "failed_partial"}]

\* compress_video: the path it returns and whether output_path was written
compress_video(input_path, output_path, outcome) ==
  [ret |-> IF outcome = "ok" THEN output_path ELSE input_path,
   wrote |-> outcome \in {"ok", "failed_partial"}]

\* Mutation: the original is deleted whatever compress_video returned.
ReplacedAlways(video, original) == TRUE

\* video_path != original_video_path
ReplacedByCompression(video, original) == video # original

\* video_path = compress_video(original_video_path, compressed_video_path)
Compress(r) ==
  /\ pc[r] = "compress"
  /\ Enter(r, "compress")
  /\ \E outcome \in CompressOutcomes :
       LET compressed_video_path == CompressedPathOf(original_video_path[r])
           c == compress_video(original_video_path[r], compressed_video_path,
                               outcome)
       IN IF outcome = "hang"
          THEN /\ Block(r)
               /\ UNCHANGED <<disk, created, video_path>>
          ELSE /\ outcome = "ok" => original_video_path[r] \in disk
               /\ disk' = IF c.wrote THEN disk \cup {compressed_video_path}
                                     ELSE disk
               /\ created' = IF c.wrote
                             THEN [created EXCEPT ![r] =
                                     @ \cup {compressed_video_path}]
                             ELSE created
               /\ video_path' = [video_path EXCEPT ![r] = c.ret]
               /\ pc' = [pc EXCEPT ![r] =
                           IF ReplacedByCompression(c.ret,
                                                    original_video_path[r])
                           THEN "unlink_original" ELSE "probe"]
               /\ UNCHANGED response
  /\ UNCHANGED <<apiKey, unlinks, form, original_video_path, audio_path,
                 duration, audio_size, transcript, result>>

\* if video_path != original_video_path: os.unlink(original_video_path)
UnlinkOriginal(r) ==
  /\ pc[r] = "unlink_original"
  /\ \E removed \in BOOLEAN :
       /\ Unlinked(r, original_video_path[r], removed)
       /\ IF removed
          THEN /\ original_video_path[r] \in disk
               /\ disk' = disk \ {original_video_path[r]}
               /\ pc' = [pc EXCEPT ![r] = "probe"]
               /\ UNCHANGED response
          ELSE /\ Raise(r, "unlink_original")
               /\ UNCHANGED disk
  /\ UNCHANGED <<apiKey, form, locals, created, stages>>

ProbeOutcomes == {"ok", "failed", "hang"}

\* audio_path = video_path.replace('.mp4', '.mp3');
\* extract_audio_ffmpeg: duration = float(check_output(ffprobe ...))
Probe(r) ==
  /\ pc[r] = "probe"
  /\ Enter(r, "probe")
  /\ audio_path' = [audio_path EXCEPT ![r] = AudioPathOf(video_path[r])]
  /\ \E outcome \in ProbeOutcomes :
       CASE outcome = "hang" ->
              Block(r) /\ UNCHANGED duration
         [] outcome = "failed" ->
              Raise(r, "probe") /\ UNCHANGED duration
         [] outcome = "ok" ->
              /\ video_path[r] \in disk
              /\ \E d \in ProbeDurations :
                   duration' = [duration EXCEPT ![r] = d]
              /\ pc' = [pc EXCEPT ![r] = "extract"]
              /\ UNCHANGED response
  /\ UNCHANGED <<apiKey, unlinks, disk, form, original_video_path, video_path,
                 audio_size, transcript, result, created>>

ExtractOutcomes == {"ok", "no_output", "failed", "failed_partial", "hang"}

\* extract_audio_ffmpeg: subprocess.run(ffmpeg ..., check=True);
\* if not os.path.exists(audio_path): raise; os.path.getsize(audio_path)
Extract(r) ==
  /\ pc[r] = "extract"
  /\ Enter(r, "extract")
  /\ \E outcome \in ExtractOutcomes :
       CASE outcome = "hang" ->
              /\ Block(r)
              /\ UNCHANGED <<disk, created, audio_size>>
         [] outcome = "failed" ->
              /\ Raise(r, "extract")
              /\ UNCHANGED <<disk, created, audio_size>>
         [] outcome = "failed_partial" ->
              /\ disk' = disk \cup {audio_path[r]}
              /\ created' = [created EXCEPT ![r] = @ \cup {audio_path[r]}]
              /\ Raise(r, "extract")
              /\ UNCHANGED audio_size
         [] outcome = "no_output" ->
              /\ IF audio_path[r] \in disk
                 THEN /\ pc' = [pc EXCEPT ![r] = "gate"]
                      /\ UNCHANGED response
                 ELSE Raise(r, "extract")
              /\ UNCHANGED <<disk, created, audio_size>>
         [] outcome = "ok" ->
              /\ video_path[r] \in disk
              /\ disk' = disk \cup {audio_path[r]}
              /\ created' = [created EXCEPT ![r] = @ \cup {audio_path[r]}]
              /\ \E s \in AudioSizes :
                   audio_size' = [audio_size EXCEPT ![r] = s]
              /\ pc' = [pc EXCEPT ![r] = "gate"]
              /\ UNCHANGED response
  /\ UNCHANGED <<apiKey, unlinks, form, original_video_path, video_path,
                 audio_path, duration, transcript, result>>

\* Mutation: no duration is too long.
TooLongNever(dur) == FALSE

\* duration > 180
TooLong(dur) == dur > MAX_DURATION_SECONDS

\* if duration > 180:
Gate(r) ==
  /\ pc[r] = "gate"
  /\ Enter(r, "gate")
  /\ pc' = [pc EXCEPT ![r] =
              IF TooLong(duration[r]) THEN "too_long_unlink_video"
                                      ELSE "transcribe"]
  /\ UNCHANGED <<apiKey, unlinks, disk, form, locals, response, created>>

\*     os.unlink(video_path)
TooLongUnlinkVideo(r) ==
  /\ pc[r] = "too_long_unlink_video"
  /\ \E removed \in BOOLEAN :
       /\ Unlinked(r, video_path[r], removed)
       /\ IF removed
          THEN /\ video_path[r] \in disk
               /\ disk' = disk \ {video_path[r]}
               /\ pc' = [pc EXCEPT ![r] = "too_long_unlink_audio"]
               /\ UNCHANGED response
          ELSE /\ Raise(r, "too_long_cleanup")
               /\ UNCHANGED disk
  /\ UNCHANGED <<apiKey, form, locals, created, stages>>

\*     if os.path.exists(audio_path): os.unlink(audio_path)
\*     return ..., 400
TooLongUnlinkAudio(r) ==
  /\ pc[r] = "too_long_unlink_audio"
  /\ IF audio_path[r] \in disk
     THEN \E removed \in BOOLEAN :
            /\ Unlinked(r, audio_path[r], removed)
            /\ IF removed
               THEN /\ disk' = disk \ {audio_path[r]}
                    /\ Respond(r, 400, "VideoTooLong")
               ELSE /\ Raise(r, "too_long_cleanup")
                    /\ UNCHANGED disk
     ELSE /\ Respond(r, 400, "VideoTooLong")
          /\ UNCHANGED <<disk, unlinks>>
  /\ UNCHANGED <<apiKey, form, locals, created, stages>>

\* transcribe_audio: os.path.getsize, open, and the remote call returning
\* one of the given texts
TranscribeOK(r, texts) ==
  /\ pc[r] = "transcribe"
  /\ audio_path[r] \in disk
  /\ Enter(r, "transcribe")
  /\ \E t \in texts : transcript' = [transcript EXCEPT ![r] = t]
  /\ pc' = [pc EXCEPT ![r] = "score"]
  /\ UNCHANGED <<apiKey, unlinks, disk, form, original_video_path, video_path,
                 audio_path, duration, audio_size, result, response, created>>

\* Mutation: a failed remote call is tried once more.
TranscribeFailRetry(r) ==
  /\ pc[r] = "transcribe"
  /\ Enter(r, "transcribe")
  /\ IF Len(stages[r]) > 0 /\ stages[r][Len(stages[r])] = "transcribe"
     THEN Raise(r, "transcribe")
     ELSE UNCHANGED <<pc, response>>
  /\ UNCHANGED <<apiKey, unlinks, disk, form, locals, created>>

\* transcribe_audio raises: except Exception: raise, then the handler's
\* except returns 500
TranscribeFail(r) ==
  /\ pc[r] = "transcribe"
  /\ Enter(r, "transcribe")
  /\ Raise(r, "transcribe")
  /\ UNCHANGED <<apiKey, unlinks, disk, form, locals, created>>

Transcribe(r) == TranscribeOK(r, SampleTranscripts) \/ TranscribeFail(r)

\* words, word_count, words_per_min, filler analysis, pace_assessment
Score(r) ==
  /\ pc[r] = "score"
  /\ Enter(r, "score")
  /\ result' = [result EXCEPT ![r] = Metrics(transcript[r], duration[r])]
  /\ pc' = [pc EXCEPT ![r] = "cleanup_video"]
  /\ UNCHANGED <<apiKey, unlinks, disk, form, original_video_path, video_path,
                 audio_path, duration, audio_size, transcript, response,
                 created>>

\* try: os.unlink(video_path) ... except: pass
CleanupVideo(r) ==
  /\ pc[r] = "cleanup_video"
  /\ \E removed \in BOOLEAN :
       /\ Unlinked(r, video_path[r], removed)
       /\ IF removed
          THEN /\ video_path[r] \in disk
               /\ disk' = disk \ {video_path[r]}
               /\ pc' = [pc EXCEPT ![r] = "cleanup_audio"]
               /\ UNCHANGED response
          ELSE /\ Respond(r, 200, "")
               /\ UNCHANGED disk
  /\ UNCHANGED <<apiKey, form, locals, created, stages>>

\* try: ... os.unlink(audio_path) except: pass; return jsonify(result)
CleanupAudio(r) ==
  /\ pc[r] = "cleanup_audio"
  /\ \E removed \in BOOLEAN :
       /\ Unlinked(r, audio_path[r], removed)
       /\ IF removed
          THEN /\ audio_path[r] \in disk
               /\ disk' = disk \ {audio_path[r]}
          ELSE UNCHANGED disk
  /\ Respond(r, 200, "")
  /\ UNCHANGED <<apiKey, form, locals, created, stages>>

analyze_video(r) ==
  \/ Receive(r)
  \/ CheckKey(r)
  \/ CheckFile(r)
  \/ CheckSize(r)
  \/ Save(r)
  \/ Compress(r)
  \/ UnlinkOriginal(r)
  \/ Probe(r)
  \/ Extract(r)
  \/ Gate(r)
  \/ TooLongUnlinkVideo(r)
  \/ TooLongUnlinkAudio(r)
  \/ Transcribe(r)
  \/ Score(r)
  \/ CleanupVideo(r)
  \/ CleanupAudio(r)

(***************************************************************************)
(* Specifications                                                          *)
(***************************************************************************)
\* the requests served in Spec: one request, every input and outcome
Serving == {1}

Next == \E r \in Serving : analyze_video(r)

Spec == Init /\ [][Next]_vars

\* every step of the handler that can run does run; a blocked subprocess
\* call has no step
FairSpec == Spec /\ \A r \in Serving : WF_vars(analyze_video(r))

\* request 1 has extracted the audio of a short upload, probed at one of
\* the given durations, and is about to transcribe it
AboutToTranscribe(durations) ==
  LET v == TempVideoPath(1) IN
  /\ apiKey = TRUE
  /\ disk = {v, AudioPathOf(v)}
  /\ pc = [r \in Requests |-> IF r = 1 THEN "transcribe" ELSE "idle"]
  /\ form = [r \in Requests |->
               IF r = 1
               THEN [hasVideo |-> TRUE,
                     filename |-> [base |-> "talk", ext |-> "mp4"],
                     size |-> COMPRESS_THRESHOLD_BYTES]
               ELSE NoForm]
  /\ original_video_path = [r \in Requests |-> IF r = 1 THEN v ELSE NoPath]
  /\ video_path = [r \in Requests |-> IF r = 1 THEN v ELSE NoPath]
  /\ audio_path = [r \in Requests |->
                     IF r = 1 THEN AudioPathOf(v) ELSE NoPath]
  /\ \E d \in durations :
       duration = [r \in Requests |-> IF r = 1 THEN d ELSE -1]
  /\ audio_size = [r \in Requests |-> IF r = 1 THEN MB ELSE 0]
  /\ transcript = [r \in Requests |-> <<>>]
  /\ result = [r \in Requests |-> NoResult]
  /\ response = [r \in Requests |-> NoResponse]
  /\ created = [r \in Requests |->
                  IF r = 1 THEN {v, AudioPathOf(v)} ELSE {}]
  /\ stages = [r \in Requests |->
                 IF r = 1 THEN <<"save", "probe", "extract", "gate">>
                 ELSE <<>>]
  /\ unlinks = [r \in Requests |-> <<>>]

\* the metric functions over every bounded transcript
MetricsInit == AboutToTranscribe({x \in ProbeDurations : ~TooLong(x)})

MetricsNext ==
  \E r \in Serving :
    \/ TranscribeOK(r, BoundedTranscripts \cup {ScenarioTranscript})
    \/ Score(r)
    \/ CleanupVideo(r)
    \/ CleanupAudio(r)

MetricsSpec == MetricsInit /\ [][MetricsNext]_vars

\* the pace of transcripts of 0..MaxWords words over durations that put
\* words_per_min on both sides of every band boundary
PaceDurations == {0, 10, 60}

PaceInit == AboutToTranscribe(PaceDurations)

PaceNext ==
  \E r \in Serving :
    \/ TranscribeOK(r, WordTexts)
    \/ Score(r)
    \/ CleanupVideo(r)
    \/ CleanupAudio(r)

PaceSpec == PaceInit /\ [][PaceNext]_vars

\* two requests in flight at once: both have passed the key check, each
\* carries talk.mp4 at or just over the compression threshold
Concurrent == {1, 2}

ConcurrentForms ==
  { [hasVideo |-> TRUE, filename |-> [base |-> "talk", ext |-> "mp4"],
     size |-> s] :
      s \in {COMPRESS_THRESHOLD_BYTES, COMPRESS_THRESHOLD_BYTES + 1} }

ConcurrentInit ==
  /\ apiKey = TRUE
  /\ disk = {}
  /\ pc = [r \in Requests |->
            IF r \in Concurrent THEN "check_file" ELSE "idle"]
  /\ form \in [Requests -> ConcurrentForms \cup {NoForm}]
  /\ \A r \in Requests : form[r] = NoForm <=> r \notin Concurrent
  /\ original_video_path = [r \in Requests |-> NoPath]
  /\ video_path = [r \in Requests |-> NoPath]
  /\ audio_path = [r \in Requests |-> NoPath]
  /\ duration = [r \in Requests |-> -1]
  /\ audio_size = [r \in Requests |-> 0]
  /\ transcript = [r \in Requests |-> <<>>]
  /\ result = [r \in Requests |-> NoResult]
  /\ response = [r \in Requests |-> NoResponse]
  /\ created = [r \in Requests |-> {}]
  /\ stages = [r \in Requests |-> <<>>]
  /\ unlinks = [r \in Requests |-> <<>>]

ConcurrentNext ==
  \E r \in Concurrent :
    \/ CheckFile(r)
    \/ CheckSize(r)
    \/ Save(r)
    \/ Compress(r)
    \/ UnlinkOriginal(r)
    \/ Probe(r)
    \/ Extract(r)
    \/ Gate(r)
    \/ TooLongUnlinkVideo(r)
    \/ TooLongUnlinkAudio(r)
    \/ TranscribeOK(r, {<<>>})
    \/ TranscribeFail(r)
    \/ Score(r)
    \/ CleanupVideo(r)
    \/ CleanupAudio(r)

ConcurrentSpec == ConcurrentInit /\ [][ConcurrentNext]_vars

(***************************************************************************)
(* Vocabulary of the properties                                            *)
(***************************************************************************)
TRANSCRIPTION_CEILING_BYTES == 24 * MB

AllowedExtensions == {"mp4", "webm", "mov", "avi", "mkv"}

Responded(r) == pc[r] = "responded"

Has(r, stage) == \E i \in 1..Len(stages[r]) : stages[r][i] = stage

StageCount(r, stage) ==
  Cardinality({i \in 1..Len(stages[r]) : stages[r][i] = stage})

\* the temp files of request r that still exist
Leftover(r) == created[r] \cap disk

EmptyNamed(r) == form[r].hasVideo /\ form[r].filename = NoFilename

UnsupportedExtension(r) ==
  /\ form[r].hasVideo
  /\ form[r].filename # NoFilename
  /\ form[r].filename.ext # ""
  /\ form[r].filename.ext \notin AllowedExtensions

Oversized(r) == form[r].hasVideo /\ form[r].size > MAX_UPLOAD_BYTES

GatedTooLong(r) == Has(r, "gate") /\ duration[r] > MAX_DURATION_SECONDS

\* the request failed for a reason its caller can correct
CallerCorrectable(r) ==
  /\ apiKey
  /\ \/ ~form[r].hasVideo
     \/ EmptyNamed(r)
     \/ UnsupportedExtension(r)
     \/ Oversized(r)
     \/ GatedTooLong(r)

RECURSIVE SumTally(_, _)
SumTally(tally, keys) ==
  IF keys = {} THEN 0
  ELSE LET k == CHOOSE x \in keys : TRUE
       IN tally[k] + SumTally(tally, keys \ {k})

Catalog == {FILLER_WORDS[i] : i \in 1..Len(FILLER_WORDS)}

(***************************************************************************)
(* Properties                                                              *)
(***************************************************************************)

\* C1: once a request has returned its response, whatever the status, none
\* of the temp files it created (upload, compressed video, audio) exists.
C1_CleanupInvariant ==
  \A r \in Requests : Responded(r) => Leftover(r) = {}

\* C2: a request whose probed duration exceeds 180 s at the gate is answered
\* 400 'too long', never calls transcribe_audio, and leaves none of its temp
\* files behind.
C2_GateOrdering ==
  \A r \in Requests :
    GatedTooLong(r) =>
      /\ ~Has(r, "transcribe")
      /\ Responded(r) =>
           /\ response[r].status = 400
           /\ response[r].error = "VideoTooLong"
           /\ Leftover(r) = {}

\* C3: the audio file handed to the remote transcription call is never
\* larger than 24 MB.
C3_SizeCeiling ==
  \A r \in Requests :
    Has(r, "transcribe") => audio_size[r] <= TRANSCRIPTION_CEILING_BYTES

\* C4: a response is 400 exactly when the cause is caller-correctable
\* (missing or empty-named file, unsupported format, upload over the size
\* ceiling, video over the duration ceiling), 500 for every other failure,
\* and 200 only when the metrics were computed.
C4_ErrorStatusMapping ==
  \A r \in Requests :
    Responded(r) =>
      /\ response[r].status \in {200, 400, 500}
      /\ (response[r].status = 400) <=> CallerCorrectable(r)
      /\ response[r].status = 200 => result[r].present

\* C5: every request that has arrived eventually gets its response, even
\* when an external probe or transcode process never returns.
C5_BoundedExternalCalls ==
  \A r \in Requests : (pc[r] = "check_key") ~> Responded(r)

\* C6: a request calls the remote transcription service at most once, and
\* when that call fails the request is answered 500 at once, with no second
\* call and no later stage.
C6_SingleTranscription ==
  \A r \in Requests :
    /\ StageCount(r, "transcribe") <= 1
    /\ response[r].raisedAt = "transcribe" =>
         /\ Responded(r)
         /\ response[r].status = 500
         /\ stages[r][Len(stages[r])] = "transcribe"
         /\ ~result[r].present

C6_Witness ==
  \E r \in Requests :
    /\ Responded(r)
    /\ response[r].raisedAt = "transcribe"
    /\ response[r].status = 500
    /\ StageCount(r, "transcribe") = 1

\* C7: with the credential configured, a request without a 'video' field,
\* or with an empty-named one, creates no temp file, enters no stage, and is
\* answered 400 MissingFile.
C7_MissingFile ==
  \A r \in Requests :
    (apiKey /\ pc[r] # "idle" /\ (~form[r].hasVideo \/ EmptyNamed(r))) =>
      /\ created[r] = {}
      /\ stages[r] = <<>>
      /\ Responded(r) =>
           /\ response[r].status = 400
           /\ response[r].error = "MissingFile"

\* C8 as stated: every upload over 50 MB is answered 400 before it is
\* saved and before any stage runs; an upload of exactly 50 MB is accepted.
C8_PayloadTooLarge_AsStated ==
  \A r \in Requests :
    /\ Oversized(r) =>
         /\ created[r] = {}
         /\ stages[r] = <<>>
         /\ Responded(r) => response[r].status = 400
    /\ (form[r].hasVideo /\ form[r].size = MAX_UPLOAD_BYTES
          /\ Responded(r)) => Has(r, "save")

\* C8, amended: when the credential is configured, every upload over 50 MB
\* is answered 400 PayloadTooLarge before it is saved and before any stage
\* runs; an upload of exactly 50 MB passes the size check and is saved.
C8_PayloadTooLarge ==
  \A r \in Requests :
    apiKey =>
      /\ Oversized(r) =>
           /\ created[r] = {}
           /\ stages[r] = <<>>
           /\ Responded(r) =>
                /\ response[r].status = 400
                /\ response[r].error = "PayloadTooLarge"
      /\ (form[r].hasVideo /\ form[r].size = MAX_UPLOAD_BYTES
            /\ Responded(r)) =>
           /\ Has(r, "save")
           /\ response[r].error # "PayloadTooLarge"

C8_Witness ==
  \E r \in Requests :
    /\ apiKey
    /\ Oversized(r)
    /\ Responded(r)
    /\ response[r].status = 400

\* C9: with the credential configured, an upload within the size ceiling
\* whose extension is outside the allow-list never reaches compression,
\* audio extraction or transcription and is answered 400 UnsupportedFormat.
C9_UnsupportedFormat ==
  \A r \in Requests :
    (apiKey /\ UnsupportedExtension(r) /\ ~Oversized(r)) =>
      /\ ~Has(r, "compress")
      /\ ~Has(r, "extract")
      /\ ~Has(r, "transcribe")
      /\ Responded(r) =>
           /\ response[r].status = 400
           /\ response[r].error = "UnsupportedFormat"

\* C10: for every transcript the filler total equals the sum of the tally,
\* every tally key is a catalog entry, and every tally count is positive.
C10_FillerTally ==
  \A r \in Requests :
    result[r].present =>
      LET tally == result[r].filler_breakdown IN
      /\ result[r].filler_count = SumTally(tally, DOMAIN tally)
      /\ DOMAIN tally \subseteq Catalog
      /\ \A k \in DOMAIN tally : tally[k] > 0

C10_Witness ==
  \E r \in Requests :
    /\ result[r].present
    /\ Cardinality(DOMAIN result[r].filler_breakdown) >= 2
    /\ result[r].filler_count >= 2

\* the number of positions of text at which sub occurs
SubstringOccurrences(text, sub) ==
  Cardinality({i \in 1..Len(text) : MatchesAt(text, sub, i)})

\* the number of occurrences of word in text that have no word character
\* directly before or after them
TokenOccurrences(text, word) ==
  Cardinality({i \in 1..Len(text) :
    /\ MatchesAt(text, word, i)
    /\ i = 1 \/ ~IsWordChar(text[i - 1])
    /\ i + Len(word) > Len(text) \/ ~IsWordChar(text[i + Len(word)])})

TallyOf(tally, filler) == IF filler \in DOMAIN tally THEN tally[filler] ELSE 0

ScenarioTally ==
  [f \in {<<"u","m">>, <<"s","o">>, <<"l","i","k","e">>,
          <<"b","a","s","i","c","a","l","l","y">>} |->
     IF f = <<"u","m">> THEN 2 ELSE 1]

PaceBands ==
  {"too slow", "good, slightly slow", "excellent", "good, slightly fast",
   "too fast"}

\* C11: assess_pace gives every words-per-minute value exactly one of five
\* bands: below 120 too slow, 120..139 slightly slow, 140..160 excellent,
\* 161..180 slightly fast, above 180 too fast.
C11_PaceBands ==
  \A r \in Requests :
    result[r].present =>
      LET w == result[r].words_per_min
          p == result[r].pace
      IN /\ w >= 0
         /\ p \in PaceBands
         /\ (p = "too slow") <=> (w < 120)
         /\ (p = "good, slightly slow") <=> (120 <= w /\ w <= 139)
         /\ (p = "excellent") <=> (140 <= w /\ w <= 160)
         /\ (p = "good, slightly fast") <=> (161 <= w /\ w <= 180)
         /\ (p = "too fast") <=> (w > 180)

C11_Witness ==
  \E r \in Requests :
    /\ result[r].present
    /\ result[r].words_per_min = 140
    /\ result[r].pace = "excellent"

\* C12: the count of a catalog entry with a space is its number of
\* substring occurrences in the lower-cased transcript, the count of any
\* other entry is its number of whole-word occurrences; the transcript
\* "um so like I think basically we should, um, go now" over 10 s gives
\* 11 words, tally um 2, so 1, like 1, basically 1, 5 fillers, 66 words per
\* minute (too slow) and a filler rate of 30.00 per minute.
C12_FillerRule ==
  \A r \in Requests :
    result[r].present =>
      LET text_lower == Lower(result[r].transcript)
          tally == result[r].filler_breakdown
      IN /\ \A f \in Catalog :
              TallyOf(tally, f) =
                IF HasSpace(f) THEN SubstringOccurrences(text_lower, f)
                               ELSE TokenOccurrences(text_lower, f)
         /\ (result[r].transcript = ScenarioTranscript
               /\ result[r].duration = 10) =>
              /\ result[r].word_count = 11
              /\ tally = ScenarioTally
              /\ result[r].filler_count = 5
              /\ result[r].words_per_min = 66
              /\ result[r].pace = "too slow"
              /\ result[r].filler_rate_per_min = 3000

C12_Witness ==
  \E r \in Requests :
    /\ result[r].present
    /\ result[r].transcript = ScenarioTranscript
    /\ result[r].duration = 10

\* C13: words_per_min is word_count * 60 / duration truncated to an integer
\* when duration > 0, and 0 when duration <= 0.
C13_WordsPerMin ==
  \A r \in Requests :
    result[r].present =>
      result[r].words_per_min =
        IF result[r].duration > 0
        THEN (result[r].word_count * 60) \div result[r].duration
        ELSE 0

\* the paths whose os.unlink by request r raised
FailedUnlinks(r) ==
  {unlinks[r][i].path : i \in {j \in 1..Len(unlinks[r]) : ~unlinks[r][j].ok}}

\* C14: when deleting a temp file fails during the cleanup of an exit path,
\* the response is the one the request would have returned anyway (400 for a
\* too-long video, 200 for a finished analysis) and the other temp file of
\* the exit path is still deleted: only files whose own deletion failed stay.
C14_CleanupFailuresSwallowed ==
  \A r \in Requests :
    (Responded(r) /\ FailedUnlinks(r) # {}
       /\ (GatedTooLong(r) \/ Has(r, "score"))) =>
      /\ GatedTooLong(r) => response[r].status = 400
      /\ Has(r, "score") => response[r].status = 200
      /\ ({video_path[r], audio_path[r]} \cap disk) \subseteq FailedUnlinks(r)

IsPrefix(s, t) ==
  /\ Len(s) <= Len(t)
  /\ \A i \in 1..Len(s) : s[i] = t[i]

LastStage(r) == IF stages[r] = <<>> THEN "" ELSE stages[r][Len(stages[r])]

StageNames ==
  {"save", "compress", "probe", "extract", "gate", "transcribe", "score"}

\* the upload passed the credential, presence and size checks
Validated(r) == apiKey /\ form[r].hasVideo /\ ~Oversized(r)

\* compress_video ran and gave back the original path
CompressionFailed(r) ==
  Has(r, "compress") /\ video_path[r] = original_video_path[r]

\* the stages after validation in the order the claim gives them
StatedOrder(compressed) ==
  <<"probe">> \o (IF compressed THEN <<"compress">> ELSE <<>>)
    \o <<"extract", "gate", "transcribe", "score">>

\* the stages after validation in the order of the handler
CodeOrder(compressed) ==
  <<"save">> \o (IF compressed THEN <<"compress">> ELSE <<>>)
    \o <<"probe", "extract", "gate", "transcribe", "score">>

NotSave(stage) == stage # "save"

\* a stage that raised is the last stage of the request; 200 is returned
\* after scoring and the too-long 400 after the gate
FailureIsTerminal(r) ==
  /\ (Responded(r) /\ response[r].raisedAt \in StageNames) =>
       LastStage(r) = response[r].raisedAt
  /\ (Responded(r) /\ response[r].status = 200) => LastStage(r) = "score"
  /\ (Responded(r) /\ response[r].error = "VideoTooLong") =>
       LastStage(r) = "gate"

\* a stage is entered only when the one before it produced its result
EarlierStagesSucceeded(r) ==
  /\ stages[r] # <<>> => Validated(r)
  /\ Has(r, "probe") =>
       video_path[r] \in created[r] /\ video_path[r] # NoPath
  /\ Has(r, "extract") => duration[r] \in ProbeDurations
  /\ Has(r, "gate") => audio_path[r] \in created[r]
  /\ Has(r, "transcribe") => ~(duration[r] > MAX_DURATION_SECONDS)

\* C15 as stated: the stages of a request run in the order validated,
\* probed, optionally compressed, audio extracted, gated, transcribed,
\* scored; each is entered only after the earlier ones succeeded; a failure
\* at any stage, compression included, ends the request as failed at once.
C15_PipelineOrder_AsStated ==
  \A r \in Requests :
    /\ \E c \in BOOLEAN :
         IsPrefix(SelectSeq(stages[r], NotSave), StatedOrder(c))
    /\ EarlierStagesSucceeded(r)
    /\ FailureIsTerminal(r)
    /\ CompressionFailed(r) =>
         Responded(r) /\ response[r].status = 500
         /\ LastStage(r) = "compress"

\* C15 as amended: the stages run in the order validated, saved, optionally
\* compressed, probed, audio extracted, gated, transcribed, scored; each is
\* entered only after the earlier ones succeeded, where a compression that
\* failed counts as passed; a failure at any other stage ends the request
\* with no later stage, and a failed compression never raises.
C15_PipelineOrder ==
  \A r \in Requests :
    /\ \E c \in BOOLEAN : IsPrefix(stages[r], CodeOrder(c))
    /\ EarlierStagesSucceeded(r)
    /\ FailureIsTerminal(r)
    /\ response[r].raisedAt # "compress"

\* a request over 20 MB whose compression failed has run every stage and
\* returned 200
C15_Witness ==
  /\ Responded(1)
  /\ response[1].status = 200
  /\ CompressionFailed(1)
  /\ stages[1] = CodeOrder(TRUE)

\* C16: compression is attempted only for uploads over 20 MB; the video
\* path after it is the compressed path, which then exists as a file the
\* request wrote, or the original path; compress_video never raises, and a
\* request whose compression failed is not ended by it: it probes and
\* extracts audio from the original upload.
C16_BestEffortCompression ==
  \A r \in Requests :
    /\ Has(r, "compress") => form[r].size > COMPRESS_THRESHOLD_BYTES
    /\ (Has(r, "probe") /\ form[r].size > COMPRESS_THRESHOLD_BYTES) =>
         Has(r, "compress")
    /\ (Has(r, "compress") /\ pc[r] # "blocked") =>
         \/ video_path[r] = original_video_path[r]
         \/ /\ video_path[r] = CompressedPathOf(original_video_path[r])
            /\ video_path[r] \in created[r]
    /\ response[r].raisedAt # "compress"
    /\ (CompressionFailed(r) /\ Responded(r)) => Has(r, "probe")
    /\ (CompressionFailed(r) /\ Has(r, "probe")) =>
         audio_path[r] = AudioPathOf(original_video_path[r])

\* a request whose compression failed has extracted audio from the original
C16_Witness ==
  /\ CompressionFailed(1)
  /\ Has(1, "extract")
  /\ pc[1] = "gate"
  /\ AudioPathOf(original_video_path[1]) \in disk

\* the paths request r has unlinked, whether or not the call succeeded
UnlinkCalls(r, path) ==
  Cardinality({i \in 1..Len(unlinks[r]) : unlinks[r][i].path = path})

\* the paths whose os.unlink by request r removed the file
DeletedPaths(r) ==
  {unlinks[r][i].path : i \in {j \in 1..Len(unlinks[r]) : unlinks[r][j].ok}}

\* C18: no path is unlinked more than once by a request; while the request
\* is between compression and cleanup the original upload has been unlinked
\* only if the video path is the compressed one; the video path handed to
\* the probe and to audio extraction, and the audio path handed to
\* transcription, name files the request has not deleted and that exist.
C18_NoUseAfterDelete ==
  \A r \in Requests :
    /\ \A i \in 1..Len(unlinks[r]) : UnlinkCalls(r, unlinks[r][i].path) = 1
    /\ (pc[r] \in {"probe", "extract", "gate", "transcribe", "score"}
          /\ UnlinkCalls(r, original_video_path[r]) > 0) =>
         /\ video_path[r] # original_video_path[r]
         /\ video_path[r] = CompressedPathOf(original_video_path[r])
    /\ pc[r] \in {"probe", "extract"} =>
         video_path[r] \notin DeletedPaths(r) /\ video_path[r] \in disk
    /\ pc[r] = "transcribe" =>
         audio_path[r] \notin DeletedPaths(r) /\ audio_path[r] \in disk

\* the original was deleted after a successful compression and the
\* compressed video is about to be handed to audio extraction
C18_Witness ==
  /\ pc[1] = "extract"
  /\ original_video_path[1] \in DeletedPaths(1)
  /\ video_path[1] = CompressedPathOf(original_video_path[1])
  /\ video_path[1] \in disk

\* C19: while OPENAI_API_KEY is unset, every request that has been answered
\* got 500 for the missing key, no request gets past the key check to look
\* at its upload, and nothing was saved, compressed, probed, extracted,
\* transcribed or unlinked.
C19_CredentialPrecheck ==
  ~apiKey =>
    /\ disk = {}
    /\ \A r \in Requests :
         /\ pc[r] \in {"idle", "check_key", "responded"}
         /\ Responded(r) =>
              response[r].status = 500 /\ response[r].error = "NoApiKey"
         /\ created[r] = {}
         /\ stages[r] = <<>>
         /\ unlinks[r] = <<>>

\* without the key, a request carrying a video within the size ceiling has
\* been answered 500
C19_Witness ==
  /\ ~apiKey
  /\ Responded(1)
  /\ response[1].status = 500
  /\ form[1].hasVideo
  /\ form[1].size <= MAX_UPLOAD_BYTES

\* the request has been received and has not returned its response
InFlight(r) == pc[r] \notin {"idle", "responded"}

\* the existing files that request q wrote and request r did not
FilesOfOther(r, q) == (created[q] \cap disk) \ created[r]

\* C17: in every step of a request, the files it newly writes and the files
\* it deletes are not existing files written by another request that is
\* still in flight: no request overwrites or deletes another's temp file.
C17_RequestIsolation ==
  [][\A r \in Requests :
       pc'[r] # pc[r] =>
         \A q \in Requests \ {r} :
           InFlight(q) =>
             ((disk \ disk') \cup (created'[r] \ created[r]))
               \cap FilesOfOther(r, q) = {}]_vars
====
